---------------------------- MODULE Spec2Model ----------------------------
(***************************************************************************)
(* Model of rmwspy/spectralsim.py: class spectral_random_field, a spectral *)
(* (circulant embedding) generator of Gaussian random fields.              *)
(*                                                                         *)
(* Representation of the numerical world                                   *)
(*   - An N-dimensional array is a record [shape, flat]: shape is the      *)
(*     sequence of axis lengths, flat the entries in row-major (C) order,  *)
(*     as numpy lays them out.                                             *)
(*   - Floating point numbers are abstracted to the prime field Z_P and    *)
(*     complex numbers to Z_P[i] (P = 3 mod 4, so Z_P[i] is a field with   *)
(*     genuinely complex roots of unity).  The discrete Fourier transform  *)
(*     of numpy.fft / pyfftw is computed in that field by its definition,  *)
(*     axis by axis.                                                       *)
(*   - The lag distance h = (sum of squares)^0.5 is kept as its square,    *)
(*     hsq, which is exact in the integers.                                *)
(*   - The bit generator behind numpy.random.default_rng is a counter      *)
(*     based stream: [key, pos], the pos-th normal deviate of the stream   *)
(*     of a key being a fixed function of key and pos.                     *)
(*   - Grid extents are naturals: zero extents are modelled, negative      *)
(*     ones are not.                                                       *)
(***************************************************************************)
EXTENDS Integers, Sequences, FiniteSets, TLC

None == "None"

\* seed = None; an explicit seed s is <<s>>
NoSeed == <<>>

-----------------------------------------------------------------------------
(* Scalars: Z_P and Z_P[i] *)

P == 71

Re(z) == z[1]

Im(z) == z[2]

CAdd(a, b) == << (a[1] + b[1]) % P, (a[2] + b[2]) % P >>

CMul(a, b) == << (a[1] * b[1] - a[2] * b[2]) % P, (a[1] * b[2] + a[2] * b[1]) % P >>

RECURSIVE CPow(_, _)
CPow(a, e) ==
    IF e = 0 THEN <<1, 0>>
    ELSE LET half == CPow(a, e \div 2)
             sq   == CMul(half, half)
         IN  IF e % 2 = 1 THEN CMul(sq, a) ELSE sq

\* x^(-1) in Z_P (Fermat), for x not a multiple of P
InvModP(x) == CPow(<<x % P, 0>>, P - 2)[1]

\* a generator of the multiplicative group of Z_P[i], of order P*P - 1
UnitGen == <<1, 8>>

\* a primitive n-th root of unity, for n dividing P*P - 1
Root(n) == CPow(UnitGen, (P * P - 1) \div n)

RECURSIVE ISqrtFrom(_, _)
ISqrtFrom(x, r) == IF (r + 1) * (r + 1) > x THEN r ELSE ISqrtFrom(x, r + 1)

\* floor of the square root of a natural number
ISqrt(x) == ISqrtFrom(x, 0)

Min(a, b) == IF a <= b THEN a ELSE b

\* ceil(num / den) for den > 0
CeilDiv(num, den) == (num + den - 1) \div den

-----------------------------------------------------------------------------
(* Arrays: [shape, flat]; entry k of the layout (from 0) is flat[k + 1].   *)

RECURSIVE Prod(_)
Prod(s) == IF Len(s) = 0 THEN 1 ELSE s[1] * Prod(Tail(s))

\* position of coordinate c (0-based) in the row-major layout of the shape
RECURSIVE FlatIndex(_, _)
FlatIndex(c, shape) ==
    IF Len(shape) = 0 THEN 0
    ELSE c[1] * Prod(Tail(shape)) + FlatIndex(Tail(c), Tail(shape))

\* the coordinate at position k of the row-major layout of the shape
RECURSIVE Unflat(_, _)
Unflat(k, shape) ==
    IF Len(shape) = 0 THEN <<>>
    ELSE <<k \div Prod(Tail(shape))>> \o Unflat(k % Prod(Tail(shape)), Tail(shape))

\* the array of a shape whose entry at position k of the layout is f(k)
Array(shape, f(_)) == [shape |-> shape, flat |-> [k \in 1 .. Prod(shape) |-> f(k - 1)] \o <<>>]

\* a one-dimensional array
Vec(seq) == [shape |-> <<Len(seq)>>, flat |-> seq]

\* a numpy scalar: the 0-d array
Scalar(x) == [shape |-> <<>>, flat |-> <<x>>]

\* a[:, np.newaxis]: one more trailing axis of length 1
NewAxis(v) == [v EXCEPT !.shape = Append(@, 1)]

RECURSIVE NewAxes(_, _)
NewAxes(v, k) == IF k = 0 THEN v ELSE NewAxes(NewAxis(v), k - 1)

\* a.squeeze(): every axis of length 1 removed
squeeze(v) == [v EXCEPT !.shape = SelectSeq(@, LAMBDA n : n # 1)]

\* v - w for w one-dimensional, under numpy broadcasting: a v of one entry
\* is stretched along w
VecSub(v, w) ==
    LET n == Len(w.flat)
    IN  Vec([i \in 1 .. n |->
               (IF Len(v.flat) = 1 THEN v.flat[1] ELSE v.flat[i]) - w.flat[i]])

\* a.reshape(shape): the same layout under another shape of the same size
\* (numpy raises ValueError for another size)
reshape(a, shape) ==
    IF Prod(shape) = Len(a.flat) THEN [shape |-> shape, flat |-> a.flat]
    ELSE "ValueError"

\* a[tuple(slice(0, stop[i], 1))] for stop >= 0: the leading block of a
SliceTo(a, stop) ==
    LET shape == [i \in 1 .. Len(a.shape) |-> Min(stop[i], a.shape[i])]
        At(k) == a.flat[FlatIndex(Unflat(k, shape), a.shape) + 1]
    IN  Array(shape, At)

-----------------------------------------------------------------------------
(* The Fourier transform collaborator (numpy.fft, pyfftw), in Z_P[i]       *)

\* the axis lengths the roots of unity are tabulated for
MaxAxis == 16

\* RootPow[n][e] = w^e for w the primitive n-th root of unity Root(n)
RootPow == [n \in 1 .. MaxAxis |->
              IF (P * P - 1) % n = 0
              THEN [e \in 0 .. (n - 1) |-> CPow(Root(n), e)]
              ELSE [e \in 0 .. (n - 1) |-> <<1, 0>>]]

RECURSIVE CSum(_, _)
CSum(f, n) == IF n = 0 THEN <<0, 0>> ELSE CAdd(CSum(f, n - 1), f[n - 1])

\* the one-dimensional transform along axis ax, with kernel w^(sign*j*q):
\* entry k lies at q along the axis, its line starts at k - q*stride
AxisDft(a, ax, sign) ==
    LET n      == a.shape[ax]
        stride == Prod(SubSeq(a.shape, ax + 1, Len(a.shape)))
        pows   == RootPow[n]
        At(k)  == LET q == (k \div stride) % n
                  IN  CSum([j \in 0 .. (n - 1) |->
                              CMul(a.flat[k - q * stride + j * stride + 1],
                                   pows[(sign * j * q) % n])], n)
    IN  Array(a.shape, At)

RECURSIVE DftAxes(_, _, _)
DftAxes(a, ax, sign) ==
    IF ax = 0 THEN a
    ELSE AxisDft(DftAxes(a, ax - 1, sign), ax, sign)

\* numpy.fft.fftn: the unnormalised forward transform over all axes
fftn(a) == DftAxes(a, Len(a.shape), -1)

\* numpy.fft.ifftn: the inverse transform over all axes, normalised by 1/N
ifftn(a) ==
    LET t     == DftAxes(a, Len(a.shape), 1)
        invN  == InvModP(Prod(a.shape))
        At(k) == CMul(t.flat[k + 1], <<invN, 0>>)
    IN  Array(a.shape, At)

-----------------------------------------------------------------------------
(* The covariance collaborator, module covariancefunction                  *)

CovModels == {"Nug", "Exp", "Sph"}

\* covfun.find_maximum_range(covmod): the effective range, a rational
find_maximum_range(covmod) ==
    CASE covmod = "Nug" -> [num |-> 0, den |-> 1]
      [] covmod = "Exp" -> [num |-> 5, den |-> 2]
      [] covmod = "Sph" -> [num |-> 6, den |-> 1]

\* the covariance of a model at the lag whose square is hsq
CovAt(covmod, hsq) ==
    CASE covmod = "Nug" -> IF hsq = 0 THEN 9 ELSE 0
      [] covmod = "Exp" -> 24 \div (2 + hsq)
      [] covmod = "Sph" -> IF hsq >= 36 THEN 0 ELSE (36 - hsq) \div 4

\* covfun.Covariogram(h, covmod): element-wise, same shape as h
Covariogram(hsq, covmod) ==
    LET At(k) == CovAt(covmod, hsq.flat[k + 1])
    IN  Array(hsq.shape, At)

-----------------------------------------------------------------------------
(* The random stream, numpy.random.default_rng                             *)

\* the stream key SeedSequence derives from a seed
SeedKey(s) == (s * 1103 + 12345) % 1021

RngKey_unseeded(seed, entropy) == SeedKey(entropy)

\* default_rng(seed = seed): an explicit seed <<s>> fixes the stream, None
\* (NoSeed) takes fresh entropy from the operating system
RngKey(seed, entropy) == IF seed = NoSeed THEN SeedKey(entropy) ELSE SeedKey(seed[1])

\* the pos-th standard normal deviate of the stream of a key
Normal(key, pos) == ((key * (pos + 1) + 7 * pos * pos + key \div 3) % 7) - 3

\* rng.standard_normal(size = shape): fills the array in row-major order and
\* advances the stream by its number of entries
standard_normal(rng, shape) ==
    LET At(k) == Normal(rng.key, rng.pos + k)
    IN  [out |-> Array(shape, At),
         rng |-> [rng EXCEPT !.pos = @ + Prod(shape)]]

-----------------------------------------------------------------------------
(* class spectral_random_field: the pieces of __init__                     *)

\* the collaborator invocations made so far on behalf of one generator
NoCalls == [range |-> 0, cov |-> 0, fftn |-> 0, ifftn_numpy |-> 0, ifftn_pyfftw |-> 0]

\* one invocation of covfun.find_maximum_range
RangeLookup(covmod, calls) ==
    [r |-> find_maximum_range(covmod), calls |-> [calls EXCEPT !.range = @ + 1]]

RoundUp8_next(num, den) == ((num \div (8 * den)) + 1) * 8

\* np.int(np.ceil(tsize/8.)*8.) for tsize = num/den
RoundUp8(num, den) == CeilDiv(num, 8 * den) * 8

\* lines 36-43: per dimension, the distance from dim to the multiple of 8
\* that dim + cutoff is rounded up to
CutoffVector(domainsize, r) ==
    Vec([i \in 1 .. Len(domainsize) |->
           RoundUp8(domainsize[i] * r.den + r.num, r.den) - domainsize[i]])

Cutoffs_always(args, calls) ==
    LET look == RangeLookup(args.covmod, calls)
    IN  [cutoff |-> CutoffVector(args.domainsize, look.r), calls |-> look.calls]

\* lines 33-43, self.cutoff: the scalar 0 when periodic, otherwise the
\* vector of cutoffs for the range the covariance collaborator gives
Cutoffs(args, calls) ==
    IF ~ args.periodic
    THEN LET look == RangeLookup(args.covmod, calls)
         IN  [cutoff |-> CutoffVector(args.domainsize, look.r), calls |-> look.calls]
    ELSE [cutoff |-> Scalar(0), calls |-> calls]

\* np.array(domainsize) + self.cutoff, the cutoff a scalar or a vector
\* (numpy broadcasting stretches a single entry)
PaddedSize(domainsize, cutoff) ==
    Vec([i \in 1 .. Len(domainsize) |->
           domainsize[i] + (IF Len(cutoff.flat) = 1 THEN cutoff.flat[1]
                                                       ELSE cutoff.flat[i])])

\* np.mgrid[[slice(0,n,1) for n in sizes]]: entry (i, c) is the i-th
\* coordinate of the grid point c
mgrid(sizes) ==
    LET shape == <<Len(sizes)>> \o sizes
        At(k) == LET ic == Unflat(k, shape) IN ic[ic[1] + 2]
    IN  Array(shape, At)

\* np.mgrid[...].reshape(3,-1).T: one row of three coordinates per grid point
xyzOf(domainsize) ==
    LET At(k) == Unflat(k \div 3, domainsize)[(k % 3) + 1]
    IN  Array(<<Prod(domainsize), 3>>, At)

WrapCoord_forward(x, n) == x

\* one entry of np.min((grid, domainsize - grid), axis=0)
WrapCoord(x, n) == Min(x, n - x)

\* line 56, self.grid: the wrapped coordinates; sizes is self.domainsize of
\* shape (ndim,1,...,1), broadcast along the leading axis of the grid
WrappedGrid(grid, sizes) ==
    LET npoints == Prod(Tail(grid.shape))
        At(k)   == WrapCoord(grid.flat[k + 1], sizes.flat[(k \div npoints) + 1])
    IN  Array(grid.shape, At)

RECURSIVE SumSq(_, _, _, _)
SumSq(grid, k, npoints, i) ==
    IF i = 0 THEN 0
    ELSE grid.flat[(i - 1) * npoints + k + 1] * grid.flat[(i - 1) * npoints + k + 1]
         + SumSq(grid, k, npoints, i - 1)

\* (self.grid**2).sum(axis=0): the square of self.h
LagSq(grid) ==
    LET npoints == Prod(Tail(grid.shape))
        At(k)   == SumSq(grid, k, npoints, grid.shape[1])
    IN  Array(Tail(grid.shape), At)

\* np.abs of a field element: the magnitude of its representative
Abs(z) == ISqrt(z[1] * z[1] + z[2] * z[2])

\* np.sqrt(self.FFTQ / self.npoints)
SqrtFFTQ(FFTQ, npoints) ==
    LET At(k) == ISqrt((FFTQ.flat[k + 1] * InvModP(npoints)) % P)
    IN  Array(FFTQ.shape, At)

-----------------------------------------------------------------------------
(* The two synthesis methods.  Each takes the object o (its attributes)    *)
(* and the invocation counts, and gives the object after the call, the     *)
(* counts and the value returned.                                          *)

Crop_none(o, Y) == Y

\* lines 97-104 and 128-134: crop a field to the requested extent
Crop(o, Y) ==
    IF ~ o.periodic
    THEN LET size == VecSub(squeeze(o.domainsize), o.cutoff).flat
         IN  reshape(SliceTo(Y, size), size)
    ELSE Y

\* epsilon * self.sqrtFFTQ for epsilon = real + 1j*imag
Shaped(real, imag, sqrtFFTQ) ==
    LET At(k) == CMul(<<real.flat[k + 1], imag.flat[k + 1]>>, <<sqrtFFTQ.flat[k + 1], 0>>)
    IN  Array(sqrtFFTQ.shape, At)

\* np.real(a) * npoints
RealTimes(a, npoints) ==
    LET At(k) == (Re(a.flat[k + 1]) * npoints) % P
    IN  Array(a.shape, At)

\* np.imag(a) * npoints
ImagTimes(a, npoints) ==
    LET At(k) == (Im(a.flat[k + 1]) * npoints) % P
    IN  Array(a.shape, At)

\* np.concatenate((Y1[np.newaxis,:], Y2[np.newaxis,:]), axis=0)
Stack2(Y1, Y2) == [shape |-> <<2>> \o Y1.shape, flat |-> Y1.flat \o Y2.flat]

\* one invocation of the inverse transform of the selected backend
InverseTransform(o, calls, a) ==
    [out   |-> ifftn(a),
     calls |-> IF o.pyfftwmode
               THEN [calls EXCEPT !.ifftn_pyfftw = @ + 1]
               ELSE [calls EXCEPT !.ifftn_numpy = @ + 1]]

\* def simnew(self), lines 78-108
simnew(o, calls) ==
    LET counter == o.counter + 1
        d1   == standard_normal(o.rng, o.sqrtFFTQ.shape)
        d2   == standard_normal(d1.rng, o.sqrtFFTQ.shape)
        rand == Shaped(d1.out, d2.out, o.sqrtFFTQ)
        t1   == InverseTransform(o, calls, rand)
        t2   == InverseTransform(o, t1.calls, rand)
        Y1   == Crop(o, RealTimes(t1.out, o.npoints))
        Y2   == Crop(o, ImagTimes(t2.out, o.npoints))
        Y    == Stack2(Y1, Y2)
    IN  [o     |-> [o EXCEPT !.counter = counter, !.rng = d2.rng, !.Y = Y],
         calls |-> t2.calls,
         ret   |-> Y]

simnew_real_imag(o, calls) ==
    LET counter == o.counter + 1
        d1   == standard_normal(o.rng, o.sqrtFFTQ.shape)
        d2   == standard_normal(d1.rng, o.sqrtFFTQ.shape)
        rand == Shaped(d1.out, d2.out, o.sqrtFFTQ)
        t1   == InverseTransform(o, calls, rand)
        Y    == Crop(o, ImagTimes(t1.out, o.npoints))
    IN  [o     |-> [o EXCEPT !.counter = counter, !.rng = d2.rng, !.Y = Y],
         calls |-> t1.calls,
         ret   |-> Y]

simnew_real_resize(o, calls) ==
    LET counter == o.counter + 1
        d1   == standard_normal(o.rng, o.sqrtFFTQ.shape)
        d2   == standard_normal(d1.rng, o.sqrtFFTQ.shape)
        rand == Shaped(d1.out, d2.out, o.sqrtFFTQ)
        t1   == InverseTransform(o, calls, rand)
        Y    == Crop(o, RealTimes(t1.out, o.npoints))
    IN  [o     |-> [o EXCEPT !.counter = counter, !.rng = d2.rng, !.Y = Y,
                             !.domainsize = squeeze(@)],
         calls |-> t1.calls,
         ret   |-> Y]

simnew_real_uncounted(o, calls) ==
    LET d1   == standard_normal(o.rng, o.sqrtFFTQ.shape)
        d2   == standard_normal(d1.rng, o.sqrtFFTQ.shape)
        rand == Shaped(d1.out, d2.out, o.sqrtFFTQ)
        t1   == InverseTransform(o, calls, rand)
        Y    == Crop(o, RealTimes(t1.out, o.npoints))
    IN  [o     |-> [o EXCEPT !.rng = d2.rng, !.Y = Y],
         calls |-> t1.calls,
         ret   |-> Y]

\* def simnew_real(self), lines 111-136
simnew_real(o, calls) ==
    LET counter == o.counter + 1
        d1   == standard_normal(o.rng, o.sqrtFFTQ.shape)
        d2   == standard_normal(d1.rng, o.sqrtFFTQ.shape)
        rand == Shaped(d1.out, d2.out, o.sqrtFFTQ)
        t1   == InverseTransform(o, calls, rand)
        Y    == Crop(o, RealTimes(t1.out, o.npoints))
    IN  [o     |-> [o EXCEPT !.counter = counter, !.rng = d2.rng, !.Y = Y],
         calls |-> t1.calls,
         ret   |-> Y]

-----------------------------------------------------------------------------
(* The constructor                                                         *)

\* lines 24-69: the attributes set before the first draw of line 76, and
\* the collaborator invocations made for them
Prepared(args, entropy) ==
    LET cut        == Cutoffs(args, NoCalls)
        cutoff     == cut.cutoff
        padded     == PaddedSize(args.domainsize, cutoff)
        ndim       == Len(padded.flat)
        npoints    == Prod(padded.flat)
        domainsize == NewAxes(padded, ndim)
        grid       == WrappedGrid(mgrid(padded.flat), domainsize)
        hsq        == LagSq(grid)
        Q          == Covariogram(hsq, args.covmod)
        spectrum   == fftn(Array(Q.shape, LAMBDA k : <<Q.flat[k + 1], 0>>))
        FFTQ       == Array(Q.shape, LAMBDA k : Abs(spectrum.flat[k + 1]))
    IN  [o |-> [counter    |-> 0,
                periodic   |-> args.periodic,
                pyfftwmode |-> args.pyfftwmode,
                seed       |-> args.seed,
                xyz        |-> IF Len(args.domainsize) = 3
                               THEN xyzOf(args.domainsize) ELSE None,
                cutoff     |-> cutoff,
                domainsize |-> domainsize,
                covmod     |-> args.covmod,
                ndim       |-> ndim,
                npoints    |-> npoints,
                grid       |-> grid,
                hsq        |-> hsq,
                Q          |-> Q,
                FFTQ       |-> FFTQ,
                sqrtFFTQ   |-> SqrtFFTQ(FFTQ, npoints),
                rng        |-> [key |-> RngKey(args.seed, entropy), pos |-> 0],
                Y          |-> None],
         calls |-> [cut.calls EXCEPT !.cov = @ + 1, !.fftn = @ + 1]]

\* the padded extents of lines 33-46 alone
PaddedOf(args) == PaddedSize(args.domainsize, Cutoffs(args, NoCalls).cutoff).flat

\* np.fft.fftn (line 64) raises ValueError on an axis without data points,
\* and so __init__ raises and no object comes to exist
ConstructionRaises(args) == \E i \in 1 .. Len(args.domainsize) : PaddedOf(args)[i] = 0

\* the collaborator invocations of an __init__ that raises at line 64
RaisedCalls(args) == [Cutoffs(args, NoCalls).calls EXCEPT !.cov = @ + 1, !.fftn = @ + 1]

\* def __init__, lines 16-76: the attributes, then self.Y = self.simnew()
Constructed(args, entropy) ==
    LET p     == Prepared(args, entropy)
        first == simnew(p.o, p.calls)
    IN  [o |-> [first.o EXCEPT !.Y = first.ret], calls |-> first.calls]

-----------------------------------------------------------------------------
(* State: the generators of the program.  A generator is                   *)
(*   status  "none" before its construction, "built" once __init__ has     *)
(*           returned, "raised" when __init__ raised                       *)
(*   args    the arguments __init__ was called with                        *)
(*   o       the object (its attributes), or None                          *)
(*   calls   the collaborator invocations made on its behalf               *)
(*   hist    the synthesis calls made by the caller since construction,    *)
(*           each with the method called and the value it returned         *)

VARIABLES gen

vars == <<gen>>

Instances == {1, 2}

\* the number of synthesis calls a caller makes on one generator
MaxCalls == 2

\* the largest padded grid (in points) of a constructed generator
MaxPoints == 128

\* the largest padded grid of the generators run side by side
TwinPoints == 8

Shapes == { <<0>>, <<1>>, <<2>>, <<3>>, <<5>>, <<8>>,
            <<2, 3>>, <<3, 0>>, <<4, 2>>, <<2, 1, 2>> }

Seeds == {NoSeed, <<5>>}

Entropy == {1, 2}

AllArgs == [domainsize : Shapes, covmod : CovModels, periodic : BOOLEAN,
            pyfftwmode : BOOLEAN, seed : Seeds]

Points(args) == Prod(PaddedOf(args))

Args == {a \in AllArgs : Points(a) <= MaxPoints}

TwinArgs == {a \in AllArgs : /\ Points(a) <= TwinPoints
                             /\ a.domainsize \in {<<3>>, <<4, 2>>, <<2, 1, 2>>}
                             /\ a.covmod = "Exp"
                             /\ ~ a.pyfftwmode}

Fresh == [status |-> "none", args |-> None, o |-> None, calls |-> NoCalls, hist |-> <<>>]

Init == gen = [g \in Instances |-> Fresh]

\* g = spectral_random_field(**args)
Construct(g, args, entropy) ==
    /\ gen[g].status = "none"
    /\ gen' = [gen EXCEPT ![g] =
                 IF ConstructionRaises(args)
                 THEN [Fresh EXCEPT !.status = "raised", !.args = args,
                                    !.calls = RaisedCalls(args)]
                 ELSE LET c == Constructed(args, entropy)
                      IN  [status |-> "built", args |-> args, o |-> c.o,
                           calls |-> c.calls, hist |-> <<>>]]

\* g.simnew()
CallSimnew(g) ==
    /\ gen[g].status = "built"
    /\ Len(gen[g].hist) < MaxCalls
    /\ LET r == simnew(gen[g].o, gen[g].calls)
       IN  gen' = [gen EXCEPT ![g].o = r.o, ![g].calls = r.calls,
                              ![g].hist = Append(@, [op |-> "simnew", ret |-> r.ret])]

\* g.simnew_real()
CallSimnewReal(g) ==
    /\ gen[g].status = "built"
    /\ Len(gen[g].hist) < MaxCalls
    /\ LET r == simnew_real(gen[g].o, gen[g].calls)
       IN  gen' = [gen EXCEPT ![g].o = r.o, ![g].calls = r.calls,
                              ![g].hist = Append(@, [op |-> "simnew_real", ret |-> r.ret])]

Build ==
    /\ gen[1].status = "none"
    /\ \E args \in Args, entropy \in Entropy : Construct(1, args, entropy)

DrawPair == CallSimnew(1)

DrawOne == CallSimnewReal(1)

\* one caller, one generator
Next == Build \/ DrawPair \/ DrawOne

Spec == Init /\ [][Next]_vars

TwinBuild ==
    \E g \in Instances :
       /\ gen[g].status = "none"
       /\ \E args \in TwinArgs, entropy \in Entropy : Construct(g, args, entropy)

TwinDrawPair == \E g \in Instances : CallSimnew(g)

TwinDrawOne == \E g \in Instances : CallSimnewReal(g)

\* two generators side by side, each driven by its own sequence of calls
TwinNext == TwinBuild \/ TwinDrawPair \/ TwinDrawOne

TwinSpec == Init /\ [][TwinNext]_vars

-----------------------------------------------------------------------------
(* Properties                                                              *)

Built(g) == gen[g].status = "built"

Positive(shape) == \A i \in 1 .. Len(shape) : shape[i] > 0

\* self.domainsize as a tuple: the padded extents
Padded(g) == gen[g].o.domainsize.flat

\* field A of a pair returned by simnew
FieldA(Y) == [shape |-> Tail(Y.shape), flat |-> SubSeq(Y.flat, 1, Len(Y.flat) \div 2)]

\* field B of a pair returned by simnew
FieldB(Y) == [shape |-> Tail(Y.shape),
              flat  |-> SubSeq(Y.flat, Len(Y.flat) \div 2 + 1, Len(Y.flat))]

\* the methods called so far, in order
Ops(g) == [k \in 1 .. Len(gen[g].hist) |-> gen[g].hist[k].op]

\* C1: for a non-periodic generator built on positive extents, with r >= 0
\* the range given by the covariance collaborator, every padded extent is a
\* multiple of 8, is at least dim + r, exceeds dim + r by less than 8, and
\* cutoff = padded - dim.
C1_PaddingRoundsUpTo8 ==
    \A g \in Instances :
       (Built(g) /\ ~ gen[g].args.periodic /\ Positive(gen[g].args.domainsize)) =>
          LET r   == find_maximum_range(gen[g].args.covmod)
              dim == gen[g].args.domainsize
          IN  /\ r.num >= 0
              /\ \A i \in 1 .. Len(dim) :
                    /\ Padded(g)[i] % 8 = 0
                    /\ Padded(g)[i] * r.den >= dim[i] * r.den + r.num
                    /\ Padded(g)[i] * r.den - (dim[i] * r.den + r.num) < 8 * r.den
                    /\ gen[g].o.cutoff.flat[i] = Padded(g)[i] - dim[i]

\* a non-periodic generator on (2,3) with range 6: 2 + 6 is a multiple of 8
\* already, 3 + 6 is rounded up to 16
C1_Witness ==
    /\ Built(1)
    /\ ~ gen[1].args.periodic
    /\ gen[1].args.domainsize = <<2, 3>>
    /\ gen[1].args.covmod = "Sph"
    /\ Padded(1) = <<8, 16>>

\* C2: for a periodic generator the padded extents are the requested ones
\* and the cutoff is zero, whatever the covariance model; and the range
\* lookup of the covariance collaborator is never invoked in periodic mode.
C2_PeriodicKeepsDomain ==
    \A g \in Instances :
       /\ (gen[g].status # "none" /\ gen[g].args.periodic) => gen[g].calls.range = 0
       /\ (Built(g) /\ gen[g].args.periodic) =>
             /\ Padded(g) = gen[g].args.domainsize
             /\ \A i \in 1 .. Len(gen[g].o.cutoff.flat) : gen[g].o.cutoff.flat[i] = 0

\* a periodic generator on an extent that padding would have changed
C2_Witness ==
    /\ Built(1)
    /\ gen[1].args.periodic
    /\ gen[1].args.domainsize = <<2, 3>>
    /\ gen[1].args.covmod = "Sph"
    /\ gen[1].o.npoints = 6

\* a well-formed array of the given shape
HasShape(a, shape) == a.shape = shape /\ Len(a.flat) = Prod(shape)

\* C3: every value returned by simnew_real has the requested shape, and
\* every value returned by simnew is a pair of two fields of that shape,
\* periodic or not and whatever the padded extents.
C3_ShapeLaw ==
    \A g \in Instances :
       Built(g) =>
          \A k \in 1 .. Len(gen[g].hist) :
             LET call == gen[g].hist[k]
             IN  IF call.op = "simnew"
                 THEN /\ HasShape(call.ret, <<2>> \o gen[g].args.domainsize)
                      /\ HasShape(FieldA(call.ret), gen[g].args.domainsize)
                      /\ HasShape(FieldB(call.ret), gen[g].args.domainsize)
                 ELSE HasShape(call.ret, gen[g].args.domainsize)

\* a padded two-dimensional generator after one call of each method
C3_Witness ==
    /\ Built(1)
    /\ ~ gen[1].args.periodic
    /\ gen[1].args.domainsize = <<2, 3>>
    /\ Padded(1) = <<8, 8>>
    /\ Ops(1) = <<"simnew", "simnew_real">>

\* the configuration of a generator: grid shape, covariance model, periodic
\* flag (and transform backend)
SameConfig(g, h) ==
    /\ gen[g].args.domainsize = gen[h].args.domainsize
    /\ gen[g].args.covmod = gen[h].args.covmod
    /\ gen[g].args.periodic = gen[h].args.periodic
    /\ gen[g].args.pyfftwmode = gen[h].args.pyfftwmode

\* the calls 1..k of the two generators were to the same methods
SameOpsUpTo(g, h, k) == \A j \in 1 .. k : gen[g].hist[j].op = gen[h].hist[j].op

\* C4: two generators built with the same configuration and the same
\* explicit seed, driven by the same sequence of calls, hold the same first
\* draw and return the same realization at every position of the sequence.
C4_SeededDeterminism ==
    (/\ Built(1) /\ Built(2)
     /\ SameConfig(1, 2)
     /\ gen[1].args.seed # NoSeed
     /\ gen[1].args.seed = gen[2].args.seed) =>
        /\ gen[1].hist = <<>> /\ gen[2].hist = <<>> => gen[1].o.Y = gen[2].o.Y
        /\ \A k \in 1 .. Min(Len(gen[1].hist), Len(gen[2].hist)) :
              SameOpsUpTo(1, 2, k) => gen[1].hist[k].ret = gen[2].hist[k].ret

\* two padded generators of one configuration and seed after the same two
\* calls, one of each method
C4_Witness ==
    /\ Built(1) /\ Built(2)
    /\ SameConfig(1, 2)
    /\ ~ gen[1].args.periodic
    /\ gen[1].args.seed = <<5>> /\ gen[2].args.seed = <<5>>
    /\ Ops(1) = <<"simnew_real", "simnew">>
    /\ Ops(2) = <<"simnew_real", "simnew">>

\* C5: a grid shape with a non-positive extent is rejected by the
\* constructor, periodic or not: __init__ raises, no generator exists and
\* no realization is returned.
C5_NonPositiveExtentRejected ==
    \A g \in Instances :
       (gen[g].status # "none" /\ ~ Positive(gen[g].args.domainsize)) =>
          /\ gen[g].status = "raised"
          /\ gen[g].o = None
          /\ gen[g].hist = <<>>

\* the attributes a synthesis call is entitled to change, blanked
Constructed_part(o) == [o EXCEPT !.counter = 0, !.rng = 0, !.Y = 0]

\* C6: a synthesis call (simnew or simnew_real) adds exactly one to the
\* counter, advances the random stream, and leaves every attribute other
\* than counter, rng and the last result Y as the constructor set it.
C6_CallFrame ==
    [][\A g \in Instances :
          (Built(g) /\ gen'[g] # gen[g]) =>
             /\ gen'[g].o.counter = gen[g].o.counter + 1
             /\ gen'[g].o.rng.key = gen[g].o.rng.key
             /\ gen'[g].o.rng.pos > gen[g].o.rng.pos
             /\ Constructed_part(gen'[g].o) = Constructed_part(gen[g].o)
             /\ gen'[g].args = gen[g].args]_vars

\* a padded generator after one call of each method
C6_Witness ==
    /\ Built(1)
    /\ ~ gen[1].args.periodic
    /\ Ops(1) = <<"simnew_real", "simnew">>
    /\ gen[1].o.counter = 3

\* C7: from the same generator state simnew_real returns the field simnew
\* returns as field A, and both leave the stream at the same position: each
\* call consumes two arrays of the padded shape, so the position is fixed by
\* the number of calls alone.
C7_RealIsFieldA ==
    /\ \A g \in Instances :
          Built(g) => gen[g].o.rng.pos = 2 * gen[g].o.npoints * gen[g].o.counter
    /\ (/\ Built(1) /\ Built(2)
        /\ SameConfig(1, 2)
        /\ gen[1].o.rng.key = gen[2].o.rng.key) =>
           \A k \in 1 .. Min(Len(gen[1].hist), Len(gen[2].hist)) :
              (gen[1].hist[k].op = "simnew" /\ gen[2].hist[k].op = "simnew_real") =>
                 FieldA(gen[1].hist[k].ret) = gen[2].hist[k].ret

\* two padded generators of one configuration and stream, called in
\* opposite orders; the second call compares a pair with a single field
\* whose fields A and B differ
C7_Witness ==
    /\ Built(1) /\ Built(2)
    /\ SameConfig(1, 2)
    /\ ~ gen[1].args.periodic
    /\ gen[1].o.rng.key = gen[2].o.rng.key
    /\ Ops(1) = <<"simnew_real", "simnew">>
    /\ Ops(2) = <<"simnew", "simnew_real">>
    /\ FieldA(gen[1].hist[2].ret) # FieldB(gen[1].hist[2].ret)

\* C8: every synthesis call invokes the inverse transform exactly once, in
\* both methods and with either backend, and the forward transform is
\* invoked once, by the constructor.
C8_OneInversePerDraw ==
    \A g \in Instances :
       Built(g) =>
          /\ gen[g].calls.ifftn_numpy + gen[g].calls.ifftn_pyfftw = gen[g].o.counter
          /\ gen[g].calls.fftn = 1

\* coordinate c with its entry on axis i mirrored: (n - c[i]) mod n
Mirror(c, i, sizes) == [c EXCEPT ![i] = (sizes[i] - c[i]) % sizes[i]]

\* C9: at every point c of the padded grid and on every axis i the wrapped
\* coordinate is min(c[i], padded[i] - c[i]); the lag array has the padded
\* shape, is 0 at the origin, and takes the same value at c and at c
\* mirrored on any axis.
C9_ToroidalLag ==
    \A g \in Instances :
       Built(g) =>
          LET o     == gen[g].o
              sizes == Padded(g)
          IN  /\ HasShape(o.hsq, sizes)
              /\ HasShape(o.grid, <<o.ndim>> \o sizes)
              /\ o.hsq.flat[1] = 0
              /\ \A k \in 0 .. (o.npoints - 1) :
                    LET c == Unflat(k, sizes)
                    IN  \A i \in 1 .. o.ndim :
                           /\ o.grid.flat[(i - 1) * o.npoints + k + 1]
                                 = Min(c[i], sizes[i] - c[i])
                           /\ o.hsq.flat[k + 1]
                                 = o.hsq.flat[FlatIndex(Mirror(c, i, sizes), sizes) + 1]

\* a padded grid of 8 by 16 points, with lags that differ along an axis
C9_Witness ==
    /\ Built(1)
    /\ Padded(1) = <<8, 16>>
    /\ gen[1].o.hsq.flat[FlatIndex(<<0, 1>>, Padded(1)) + 1] = 1
    /\ gen[1].o.hsq.flat[FlatIndex(<<0, 15>>, Padded(1)) + 1] = 1
    /\ gen[1].o.hsq.flat[FlatIndex(<<4, 8>>, Padded(1)) + 1] = 80

\* the state part of C10
C10_CounterAndLastResult ==
    \A g \in Instances :
       Built(g) =>
          LET o    == gen[g].o
              hist == gen[g].hist
          IN  /\ o.counter = Len(hist) + 1
              /\ hist = <<>> =>
                    /\ o.rng.pos = 2 * o.npoints
                    /\ HasShape(o.Y, <<2>> \o gen[g].args.domainsize)
              /\ hist # <<>> =>
                    /\ o.Y = hist[Len(hist)].ret
                    /\ hist[Len(hist)].op = "simnew" => Len(o.Y.shape) = o.ndim + 1
                    /\ hist[Len(hist)].op = "simnew_real" => Len(o.Y.shape) = o.ndim

\* C10: the constructor performs one pair draw: right after construction
\* the counter is 1, the stream is advanced by one draw and Y holds a pair;
\* after k further calls the counter is k + 1, it never decreases, and Y is
\* the value the latest call returned (a pair after simnew, one field after
\* simnew_real).
C10_ConstructionDraws ==
    /\ [] C10_CounterAndLastResult
    /\ [][\A g \in Instances :
             Built(g) => gen'[g].o.counter >= gen[g].o.counter]_vars

\* a generator whose latest call returned one field, after a pair
C10_Witness ==
    /\ Built(1)
    /\ Ops(1) = <<"simnew", "simnew_real">>
    /\ gen[1].o.counter = 3
    /\ gen[1].o.Y = gen[1].hist[2].ret
    /\ gen[1].o.Y # FieldA(gen[1].hist[1].ret)

=============================================================================
